---- MODULE Spec2Model ----
(***************************************************************************)
(* Model of app.py, the PDF to Excel converter: convert_pdf_to_excel (the  *)
(* java check, the tabula call, the clean-up and sheet-writing loop, the   *)
(* error handler), the per-file loop that fills excel_files, and the       *)
(* download branch (single workbook or ZIP archive).                       *)
(*                                                                         *)
(* A text (file name) is a sequence of one-character strings, so that      *)
(* str.replace is computed character by character.  A DataFrame is a       *)
(* record of its column labels, its index labels and its rows of cells.    *)
(* The content of a BytesIO buffer is the sequence of workbooks saved to   *)
(* it, in the order they were saved: xlsxwriter saves a workbook by        *)
(* opening zipfile.ZipFile(buffer, "w"), which writes at the buffer's      *)
(* current position and never truncates.                                   *)
(***************************************************************************)
EXTENDS Integers, Sequences, FiniteSets, TLC

VARIABLES
    uploaded_files,  \* the names of the uploaded files, in upload order
    pc,              \* position of the script
    idx,             \* 1-based position of the file being processed
    excel_files,     \* the dict: sequence of [name, data], insertion order
    excel_buffer,    \* the BytesIO of the file being processed
    tables,          \* the list returned by tabula.read_pdf (mutated in place)
    i,               \* the enumerate index of the sheet-writing loop
    writer,          \* the sheets added to the open ExcelWriter
    exc,             \* the message of the exception being handled
    cur,             \* what happened so far to the file being processed, or
                     \* to the last one processed until the next one starts
    log,             \* name, bytes and outcome of each processed file
    converted,       \* number of convert_pdf_to_excel calls per position
    download,        \* what the download button offers
    df_in, df_out,   \* clean-up alone: a DataFrame and its cleaned form
    sheet_written,   \* clean-up alone: did the loop body write a sheet
    name_in, name_out \* file-name derivation alone: a name and its result

vars == <<uploaded_files, pc, idx, excel_files, excel_buffer, tables, i,
          writer, exc, cur, log, converted, download,
          df_in, df_out, sheet_written, name_in, name_out>>

batchVars == <<uploaded_files, pc, idx, excel_files, excel_buffer, tables, i,
               writer, exc, cur, log, converted, download>>
cleanVars == <<df_in, df_out, sheet_written>>
nameVars  == <<name_in, name_out>>

----------------------------------------------------------------------------
(* Bounds *)

MaxFiles  == 2    \* files in one upload
MaxTables == 2    \* tables tabula returns for one file
MaxRows   == 3    \* rows of a DataFrame (clean-up alone)
MaxCols   == 3    \* columns of a DataFrame (clean-up alone)
MaxParts  == 3    \* pieces a file name's stem is built from

----------------------------------------------------------------------------
(* Texts *)

NaN == "NaN"

PdfExt  == <<".", "p", "d", "f">>
XlsxExt == <<".", "x", "l", "s", "x">>

\* str.replace(old, new): every non-overlapping occurrence, left to right,
\* compared case-sensitively.
RECURSIVE Replace(_, _, _)
Replace(s, old, new) ==
    IF Len(s) < Len(old) THEN s
    ELSE IF SubSeq(s, 1, Len(old)) = old
         THEN new \o Replace(SubSeq(s, Len(old) + 1, Len(s)), old, new)
         ELSE <<s[1]>> \o Replace(Tail(s), old, new)

\* uploaded_file.name.replace('.pdf', '.xlsx')
excel_filename(name) == Replace(name, PdfExt, XlsxExt)

\* a plausible slip: the enumerate index itself (0-based)
sheet_name_zero(n) == "Table " \o ToString(n)

\* f"Table {i + 1}"
sheet_name(n) == "Table " \o ToString(n + 1)

----------------------------------------------------------------------------
(* DataFrames *)

DataFrame(columns, index, data, writable) ==
    [columns |-> columns, index |-> index, data |-> data, writable |-> writable]

\* the subsequence of s at the positions in keep, from position p on
RECURSIVE Pick(_, _, _)
Pick(s, keep, p) ==
    IF p > Len(s) THEN <<>>
    ELSE (IF p \in keep THEN <<s[p]>> ELSE <<>>) \o Pick(s, keep, p + 1)

\* df.dropna(how='all', axis=0): drop the rows whose cells are all NaN
dropna_rows(df) ==
    LET keep == {r \in 1..Len(df.data) :
                   \E c \in 1..Len(df.columns) : df.data[r][c] # NaN}
    IN  [df EXCEPT !.index = Pick(df.index, keep, 1),
                   !.data  = Pick(df.data, keep, 1)]

\* df.dropna(how='all', axis=1): drop the columns whose cells are all NaN
dropna_cols(df) ==
    LET keep == {c \in 1..Len(df.columns) :
                   \E r \in 1..Len(df.data) : df.data[r][c] # NaN}
    IN  [df EXCEPT !.columns = Pick(df.columns, keep, 1),
                   !.data = [r \in 1..Len(df.data) |-> Pick(df.data[r], keep, 1)]]

\* a plausible slip: the columns are not cleaned
Cleanup_rows_only(df) == dropna_rows(df)

\* the two dropna calls of the loop body, rows first
Cleanup(df) == dropna_cols(dropna_rows(df))

\* df.empty: some axis has length zero
empty(df) == Len(df.index) = 0 \/ Len(df.columns) = 0

\* what df.to_excel(writer, sheet_name=..., index=False) adds to the workbook:
\* a sheet with the header row and the data rows
Sheet(name, df) == [name |-> name, header |-> df.columns, rows |-> df.data]

\* pd.DataFrame({"Message": ["No tables found in PDF."]})
df_empty == DataFrame(<<"Message">>, <<0>>, <<<<"No tables found in PDF.">>>>, TRUE)

\* pd.DataFrame({"Error": [f"Failed to process PDF: {e}"]})
df_error(e) == DataFrame(<<"Error">>, <<0>>, <<<<"Failed to process PDF: " \o e>>>>, TRUE)

----------------------------------------------------------------------------
(* Inputs of a run *)

Name_a     == <<"a", ".", "p", "d", "f">>
Name_b     == <<"b", ".", "p", "d", "f">>

\* names the uploader hands over
FileNames == {Name_a, Name_b}

\* a table with one data cell, one empty row and one empty column
T_data  == DataFrame(<<"c1", "c2">>, <<0, 1>>, <<<<"x", NaN>>, <<NaN, NaN>>>>, TRUE)
\* a table with no data cell at all
T_blank == DataFrame(<<"c1">>, <<0>>, <<<<NaN>>>>, TRUE)
\* a table to_excel raises on
T_bad   == DataFrame(<<"c1">>, <<0>>, <<<<"x">>>>, FALSE)

TableSamples == {T_data, T_blank, T_bad}

SeqsUpTo(S, n) == UNION {[1..k -> S] : k \in 0..n}

\* what tabula.read_pdf can return
TableLists == SeqsUpTo(TableSamples, MaxTables)

JavaError  == "java could not be run"
ReadError  == "read_pdf failed"
WriteError == "to_excel failed"

----------------------------------------------------------------------------
(* The workbook writer and the buffer *)

\* a plausible slip: the two mode flags exchanged
read_pdf_args_lattice ==
    [pages |-> "all", multiple_tables |-> TRUE, stream |-> FALSE,
     guess |-> TRUE, lattice |-> TRUE]

\* the keyword arguments of the one tabula.read_pdf call
read_pdf_args ==
    [pages |-> "all", multiple_tables |-> TRUE, stream |-> TRUE,
     guess |-> TRUE, lattice |-> FALSE]

\* the workbook xlsxwriter saves on close: the sheets added, or a default
\* sheet when none was added
Workbook(sheets) ==
    IF sheets = <<>>
    THEN <<[name |-> "Sheet1", header |-> <<>>, rows |-> <<>>]>>
    ELSE sheets

\* what leaving the `with pd.ExcelWriter(...)` block on an exception can have
\* saved to the buffer: nothing (close raised as well), the sheets added so
\* far, or those and the sheet to_excel had begun
PartialSaves(sheets, name) ==
    { <<>>,
      <<Workbook(sheets)>>,
      <<Workbook(Append(sheets, [name |-> name, header |-> <<>>, rows |-> <<>>]))>> }

\* the workbook a reader opens from the bytes: the archive whose end record
\* is at the end of the bytes, i.e. the last one saved; none for no bytes
NoWorkbook == <<>>
OpenWorkbook(bytes) == IF bytes = <<>> THEN NoWorkbook ELSE bytes[Len(bytes)]

\* excel_files[name] = data on an insertion-ordered dict
DictSet(d, name, data) ==
    IF \E j \in 1..Len(d) : d[j].name = name
    THEN [j \in 1..Len(d) |->
            IF d[j].name = name THEN [name |-> name, data |-> data] ELSE d[j]]
    ELSE Append(d, [name |-> name, data |-> data])

NoDownload == [kind |-> "none"]

NewCur == [java |-> "unchecked", calls |-> <<>>, read |-> FALSE,
           returned |-> <<>>, placeholder |-> FALSE, raised |-> FALSE,
           error |-> "", sheets_before_failure |-> 0]

----------------------------------------------------------------------------
(* The run *)

Init ==
    /\ uploaded_files \in SeqsUpTo(FileNames, MaxFiles)
    /\ pc = "button"
    /\ idx = 1
    /\ excel_files = <<>>
    /\ excel_buffer = <<>>
    /\ tables = <<>>
    /\ i = 0
    /\ writer = <<>>
    /\ exc = ""
    /\ cur = NewCur
    /\ log = <<>>
    /\ converted = [p \in 1..Len(uploaded_files) |-> 0]
    /\ download = NoDownload
    /\ df_in = df_empty /\ df_out = df_empty /\ sheet_written = FALSE
    /\ name_in = <<>> /\ name_out = <<>>

\* if st.button("Convert to Excel"): if uploaded_files: ... else: st.warning
Convert ==
    /\ pc = "button"
    /\ pc' = IF uploaded_files # <<>> THEN "loop" ELSE "done"
    /\ UNCHANGED <<uploaded_files, idx, excel_files, excel_buffer, tables, i,
                   writer, exc, cur, log, converted, download>>
    /\ UNCHANGED <<cleanVars, nameVars>>

\* for uploaded_file in uploaded_files: excel_buffer = io.BytesIO();
\* convert_pdf_to_excel(uploaded_file, excel_buffer) is entered
StartFile ==
    /\ pc = "loop"
    /\ idx <= Len(uploaded_files)
    /\ excel_buffer' = <<>>
    /\ converted' = [converted EXCEPT ![idx] = @ + 1]
    /\ cur' = NewCur
    /\ tables' = <<>>
    /\ i' = 0
    /\ writer' = <<>>
    /\ exc' = ""
    /\ pc' = "java"
    /\ UNCHANGED <<uploaded_files, idx, excel_files, log, download>>
    /\ UNCHANGED <<cleanVars, nameVars>>

\* the loop is exhausted
EndLoop ==
    /\ pc = "loop"
    /\ idx > Len(uploaded_files)
    /\ pc' = "package"
    /\ UNCHANGED <<uploaded_files, idx, excel_files, excel_buffer, tables, i,
                   writer, exc, cur, log, converted, download>>
    /\ UNCHANGED <<cleanVars, nameVars>>

\* subprocess.run(["java", "-version"], check=True, ...); on
\* CalledProcessError or FileNotFoundError: st.error, st.info, return;
\* any other exception of subprocess.run goes to the outer handler
JavaCheck ==
    /\ pc = "java"
    /\ \E result \in {"ok", "missing", "other error"} :
         /\ cur' = [cur EXCEPT !.java = result]
         /\ pc' = CASE result = "ok" -> "read"
                    [] result = "missing" -> "store"
                    [] OTHER -> "except"
         /\ exc' = IF result = "other error" THEN JavaError ELSE exc
    /\ UNCHANGED <<uploaded_files, idx, excel_files, excel_buffer, tables, i,
                   writer, log, converted, download>>
    /\ UNCHANGED <<cleanVars, nameVars>>

\* tables = tabula.read_pdf(pdf_file, pages='all', ..., stream=True,
\* guess=True, lattice=False): a list of tables, or an exception
ReadPdf ==
    /\ pc = "read"
    /\ \E fails \in BOOLEAN, result \in TableLists :
         IF fails
         THEN /\ result = <<>>
              /\ cur' = [cur EXCEPT !.calls = Append(@, read_pdf_args)]
              /\ exc' = ReadError
              /\ pc' = "except"
              /\ UNCHANGED tables
         ELSE /\ cur' = [cur EXCEPT !.calls = Append(@, read_pdf_args),
                                    !.read = TRUE, !.returned = result]
              /\ tables' = result
              /\ pc' = "tables"
              /\ UNCHANGED exc
    /\ UNCHANGED <<uploaded_files, idx, excel_files, excel_buffer, i,
                   writer, log, converted, download>>
    /\ UNCHANGED <<cleanVars, nameVars>>

\* a plausible slip: no placeholder for an empty list
CheckTables_no_placeholder ==
    /\ pc = "tables"
    /\ writer' = <<>>
    /\ i' = 0
    /\ pc' = "write"
    /\ UNCHANGED <<uploaded_files, idx, excel_files, excel_buffer, exc, log,
                   converted, download, tables, cur>>
    /\ UNCHANGED <<cleanVars, nameVars>>

\* if not tables: st.warning(...); tables.append(df_empty)
\* then: with pd.ExcelWriter(excel_buffer, engine='xlsxwriter') as writer
CheckTables ==
    /\ pc = "tables"
    /\ IF tables = <<>>
       THEN /\ tables' = Append(tables, df_empty)
            /\ cur' = [cur EXCEPT !.placeholder = TRUE]
       ELSE UNCHANGED <<tables, cur>>
    /\ writer' = <<>>
    /\ i' = 0
    /\ pc' = "write"
    /\ UNCHANGED <<uploaded_files, idx, excel_files, excel_buffer, exc, log,
                   converted, download>>
    /\ UNCHANGED <<cleanVars, nameVars>>

\* one pass of `for i, df in enumerate(tables)`: the two dropna calls in
\* place, then, if the frame is not empty, df.to_excel under f"Table {i + 1}";
\* to_excel may raise, and the `with` block is then left through its exit
WriteSheet ==
    /\ pc = "write"
    /\ i < Len(tables)
    /\ LET df == Cleanup(tables[i + 1])
       IN  /\ tables' = [tables EXCEPT ![i + 1] = df]
           /\ IF empty(df)
              THEN /\ i' = i + 1
                   /\ UNCHANGED <<writer, excel_buffer, exc, cur, pc>>
              ELSE IF df.writable
              THEN /\ writer' = Append(writer, Sheet(sheet_name(i), df))
                   /\ i' = i + 1
                   /\ UNCHANGED <<excel_buffer, exc, cur, pc>>
              ELSE /\ \E saved \in PartialSaves(writer, sheet_name(i)) :
                         excel_buffer' = excel_buffer \o saved
                   /\ exc' = WriteError
                   /\ cur' = [cur EXCEPT !.sheets_before_failure = Len(writer)]
                   /\ pc' = "except"
                   /\ UNCHANGED <<writer, i>>
    /\ UNCHANGED <<uploaded_files, idx, excel_files, log, converted, download>>
    /\ UNCHANGED <<cleanVars, nameVars>>

\* the loop over the tables is exhausted: the `with` block ends and the
\* workbook is saved to the buffer
CloseWriter ==
    /\ pc = "write"
    /\ i = Len(tables)
    /\ excel_buffer' = Append(excel_buffer, Workbook(writer))
    /\ pc' = "store"
    /\ UNCHANGED <<uploaded_files, idx, excel_files, tables, i, writer, exc,
                   cur, log, converted, download>>
    /\ UNCHANGED <<cleanVars, nameVars>>

\* a plausible slip: the handler reports the error and lets it go on
HandleError_reraise ==
    /\ pc = "except"
    /\ cur' = [cur EXCEPT !.raised = TRUE, !.error = exc]
    /\ pc' = "crashed"
    /\ UNCHANGED <<uploaded_files, idx, excel_files, excel_buffer, tables, i,
                   writer, exc, log, converted, download>>
    /\ UNCHANGED <<cleanVars, nameVars>>

\* a plausible slip: the handler reports the error and writes nothing
HandleError_silent ==
    /\ pc = "except"
    /\ cur' = [cur EXCEPT !.raised = TRUE, !.error = exc]
    /\ pc' = "store"
    /\ UNCHANGED <<uploaded_files, idx, excel_files, excel_buffer, tables, i,
                   writer, exc, log, converted, download>>
    /\ UNCHANGED <<cleanVars, nameVars>>

\* except Exception as e: st.error(...); a workbook with the one sheet
\* "Error" is written to the same buffer through a new ExcelWriter
HandleError ==
    /\ pc = "except"
    /\ cur' = [cur EXCEPT !.raised = TRUE, !.error = exc]
    /\ excel_buffer' = Append(excel_buffer, Workbook(<<Sheet("Error", df_error(exc))>>))
    /\ pc' = "store"
    /\ UNCHANGED <<uploaded_files, idx, excel_files, tables, i, writer, exc,
                   log, converted, download>>
    /\ UNCHANGED <<cleanVars, nameVars>>

\* back in the loop: excel_filename = uploaded_file.name.replace(...);
\* excel_files[excel_filename] = excel_buffer.getvalue()
\* (excel_buffer.seek(0) moves the cursor only; getvalue ignores it)
StoreResult ==
    /\ pc = "store"
    /\ excel_files' = DictSet(excel_files, excel_filename(uploaded_files[idx]),
                              excel_buffer)
    /\ log' = Append(log, [name |-> uploaded_files[idx], data |-> excel_buffer,
                           outcome |-> IF cur.java = "missing" THEN "no java"
                                       ELSE IF cur.raised THEN "error" ELSE "ok"])
    /\ idx' = idx + 1
    /\ pc' = "loop"
    /\ UNCHANGED <<uploaded_files, excel_buffer, tables, i, writer, exc, cur,
                   converted, download>>
    /\ UNCHANGED <<cleanVars, nameVars>>

\* a plausible slip: an archive whatever the number of files
Package_always_zip ==
    /\ pc = "package"
    /\ download' = [kind |-> "zip", file_name |-> "converted_pdfs.zip",
                    entries |-> excel_files]
    /\ pc' = "done"
    /\ UNCHANGED <<uploaded_files, idx, excel_files, excel_buffer, tables, i,
                   writer, exc, cur, log, converted>>
    /\ UNCHANGED <<cleanVars, nameVars>>

\* if excel_files: one entry -> a download button for that workbook;
\* otherwise a ZIP with one writestr per dict item; else: st.error
Package ==
    /\ pc = "package"
    /\ download' =
         IF excel_files = <<>> THEN [kind |-> "error"]
         ELSE IF Len(excel_files) = 1
         THEN [kind |-> "xlsx", file_name |-> excel_files[1].name,
               data |-> excel_files[1].data]
         ELSE [kind |-> "zip", file_name |-> "converted_pdfs.zip",
               entries |-> excel_files]
    /\ pc' = "done"
    /\ UNCHANGED <<uploaded_files, idx, excel_files, excel_buffer, tables, i,
                   writer, exc, cur, log, converted>>
    /\ UNCHANGED <<cleanVars, nameVars>>

Next ==
    \/ Convert
    \/ StartFile
    \/ EndLoop
    \/ JavaCheck
    \/ ReadPdf
    \/ CheckTables
    \/ WriteSheet
    \/ CloseWriter
    \/ HandleError
    \/ StoreResult
    \/ Package

Spec == Init /\ [][Next]_vars

----------------------------------------------------------------------------
(* The clean-up of one table, alone *)

\* a DataFrame of nr rows and nc columns; columns are labelled c1, c2, ...
\* and rows 0, 1, ...
Frame(nr, nc, data) ==
    DataFrame([c \in 1..nc |-> "c" \o ToString(c)], [r \in 1..nr |-> r - 1],
              data, TRUE)

IdleBatch ==
    /\ uploaded_files = <<>>
    /\ idx = 1
    /\ excel_files = <<>>
    /\ excel_buffer = <<>>
    /\ tables = <<>>
    /\ i = 0
    /\ writer = <<>>
    /\ exc = ""
    /\ cur = NewCur
    /\ log = <<>>
    /\ converted = <<>>
    /\ download = NoDownload

InitClean ==
    /\ IdleBatch
    /\ pc = "clean"
    /\ \E nr \in 0..MaxRows, nc \in 1..MaxCols :
         \E data \in [1..nr -> [1..nc -> {NaN, "x"}]] :
            df_in = Frame(nr, nc, data)
    /\ df_out = df_in
    /\ sheet_written = FALSE
    /\ name_in = <<>> /\ name_out = <<>>

\* the body of the sheet-writing loop on one table: the two dropna calls,
\* then a sheet is written if the frame is not empty
CleanTable ==
    /\ pc = "clean"
    /\ df_out' = Cleanup(df_in)
    /\ sheet_written' = ~empty(df_out')
    /\ pc' = "cleaned"
    /\ UNCHANGED <<uploaded_files, idx, excel_files, excel_buffer, tables, i,
                   writer, exc, cur, log, converted, download>>
    /\ UNCHANGED <<df_in, nameVars>>

NextClean == CleanTable

SpecClean == InitClean /\ [][NextClean]_vars

----------------------------------------------------------------------------
(* The derivation of the output file name, alone *)

UpperExt == <<".", "P", "D", "F">>

\* the pieces the rest of a stem is built from
Pieces == { <<"a">>, <<"p", "d", "f">>, PdfExt, UpperExt }

RECURSIVE Flatten(_)
Flatten(ss) == IF ss = <<>> THEN <<>> ELSE Head(ss) \o Flatten(Tail(ss))

\* file names: a stem that starts with a letter, then a pdf extension in
\* either case
PdfNames ==
    { <<"a">> \o Flatten(parts) \o ext :
        parts \in SeqsUpTo(Pieces, MaxParts), ext \in {PdfExt, UpperExt} }

InitName ==
    /\ IdleBatch
    /\ pc = "name"
    /\ name_in \in PdfNames
    /\ name_out = <<>>
    /\ df_in = df_empty /\ df_out = df_empty /\ sheet_written = FALSE

\* excel_filename = uploaded_file.name.replace('.pdf', '.xlsx')
DeriveName ==
    /\ pc = "name"
    /\ name_out' = excel_filename(name_in)
    /\ pc' = "named"
    /\ UNCHANGED <<uploaded_files, idx, excel_files, excel_buffer, tables, i,
                   writer, exc, cur, log, converted, download>>
    /\ UNCHANGED <<name_in, cleanVars>>

NextName == DeriveName

SpecName == InitName /\ [][NextName]_vars

----------------------------------------------------------------------------
(* Properties *)

\* a file has just been stored: cur is the record of its conversion and
\* Bytes are the bytes recorded for it
Stored == pc \in {"loop", "package", "done"} /\ Len(log) >= 1
Bytes == log[Len(log)].data

HasData(df) ==
    \E r \in 1..Len(df.data) : \E c \in 1..Len(df.columns) : df.data[r][c] # NaN

\* the k-th smallest member of a set of integers
Nth(S, k) == CHOOSE x \in S : Cardinality({y \in S : y < x}) = k - 1

SheetNames(wb) == {wb[n].name : n \in 1..Len(wb)}

\* the conversion of the stored file went through without an exception
Succeeded == cur.java = "ok" /\ cur.read /\ ~cur.raised

\* the list the sheet-writing loop went over for the stored file
Iterated == IF cur.placeholder THEN <<df_empty>> ELSE cur.returned

\* C1: for a batch of N > 1 files the packager builds an archive with exactly
\* N entries, the p-th named by the p-th file's derived name and holding the
\* bytes the p-th conversion produced.
C1_ArchiveOneEntryPerFile ==
    (pc = "done" /\ Len(uploaded_files) > 1) =>
        /\ download.kind = "zip"
        /\ Len(download.entries) = Len(uploaded_files)
        /\ \A p \in 1..Len(uploaded_files) :
             /\ download.entries[p].name = excel_filename(uploaded_files[p])
             /\ download.entries[p].data = log[p].data

\* convert_pdf_to_excel has been entered for the file at idx and its result is
\* not stored yet
InConversion == pc \in {"java", "read", "tables", "write", "except", "store", "crashed"}

\* C2: failures are isolated per file: no exception leaves
\* convert_pdf_to_excel, the files are processed in input order, each one is
\* converted exactly once and its derived name gets an entry in excel_files
\* holding its bytes when it is stored, whether or not a file before it
\* failed, and the loop ends only when every file has been processed.
C2_FailuresIsolated ==
    /\ pc # "crashed"
    /\ Len(log) = idx - 1
    /\ \A p \in 1..Len(uploaded_files) :
         converted[p] = IF p < idx \/ (p = idx /\ InConversion) THEN 1 ELSE 0
    /\ \A p \in 1..Len(log) :
         /\ log[p].name = uploaded_files[p]
         /\ \E j \in 1..Len(excel_files) :
              excel_files[j].name = excel_filename(uploaded_files[p])
    /\ Stored =>
         \E j \in 1..Len(excel_files) :
            /\ excel_files[j].name = excel_filename(uploaded_files[Len(log)])
            /\ excel_files[j].data = Bytes
    /\ (pc \in {"package", "done"} /\ uploaded_files # <<>>)
         => Len(log) = Len(uploaded_files)

\* C2 witness: the first file failed and the file after it was converted and
\* stored all the same.
C2_Witness ==
    /\ pc = "done"
    /\ Len(log) >= 2
    /\ log[1].outcome = "error"
    /\ log[2].outcome = "ok"
    /\ converted[2] = 1

\* C3: when extraction or sheet writing raised, before any sheet or after
\* some sheets were written, the workbook opened from the file's bytes has
\* exactly one sheet, named Error, holding the stringified failure; no table
\* sheet is in it.
C3_ErrorWorkbookOnly ==
    (Stored /\ cur.raised) =>
        LET wb == OpenWorkbook(Bytes)
        IN  /\ Len(wb) = 1
            /\ wb[1].name = "Error"
            /\ wb[1].header = <<"Error">>
            /\ wb[1].rows = <<<<"Failed to process PDF: " \o cur.error>>>>

\* C3 witness: to_excel raised after a sheet had been written, and the
\* workbook with that sheet had been saved to the buffer by then.
C3_Witness ==
    /\ Stored
    /\ cur.raised
    /\ cur.error = WriteError
    /\ cur.sheets_before_failure >= 1
    /\ Len(Bytes) = 2
    /\ "Table 1" \in SheetNames(Bytes[1])

\* C4: when the java check fails for a file, the extractor is never called
\* for it and the bytes recorded for it are the error workbook.
C4_JavaFailureGivesErrorWorkbook ==
    (Stored /\ cur.java = "missing") =>
        /\ cur.calls = <<>>
        /\ LET wb == OpenWorkbook(Bytes)
           IN  Len(wb) = 1 /\ wb[1].name = "Error"

\* C5: extraction is first attempted in lattice mode, stream mode comes only
\* after a lattice attempt, and the placeholder only after both.
C5_LatticeThenStream ==
    /\ cur.calls # <<>> => cur.calls[1].lattice
    /\ \A n \in 1..Len(cur.calls) :
         cur.calls[n].stream => \E m \in 1..(n - 1) : cur.calls[m].lattice
    /\ cur.placeholder =>
         /\ \E m \in 1..Len(cur.calls) : cur.calls[m].lattice
         /\ \E m \in 1..Len(cur.calls) : cur.calls[m].stream

\* C5 (amended): extraction is attempted at most once per file, in stream
\* mode with lattice off, and only after the java check passed; the
\* placeholder is recorded only after that one attempt returned no table.
C5_SingleStreamAttempt ==
    /\ Len(cur.calls) <= 1
    /\ \A n \in 1..Len(cur.calls) :
         cur.calls[n].stream /\ ~cur.calls[n].lattice /\ cur.java = "ok"
    /\ cur.placeholder => (Len(cur.calls) = 1 /\ cur.read /\ cur.returned = <<>>)

\* C5 witness: the placeholder was recorded after the stream call returned
\* an empty list.
C5_Witness ==
    /\ pc = "write"
    /\ cur.placeholder
    /\ tables = <<df_empty>>
    /\ Len(cur.calls) = 1

\* the sheets of a file converted without failure, the names being
\* prefix followed by the 1-based position in the list the loop went over
SheetsNumberedByPosition(prefix) ==
    (Stored /\ Succeeded) =>
        LET wb == OpenWorkbook(Bytes)
            ts == Iterated
        IN  /\ \A k \in 1..Len(ts) :
                 IF HasData(ts[k])
                 THEN \E n \in 1..Len(wb) :
                        /\ wb[n].name = prefix \o ToString(k)
                        /\ wb[n].rows = Cleanup(ts[k]).data
                 ELSE (prefix \o ToString(k)) \notin SheetNames(wb)
            /\ \A m, n \in 1..Len(wb) : wb[m].name = wb[n].name => m = n
            /\ Len(wb) = IF \E k \in 1..Len(ts) : HasData(ts[k])
                         THEN Cardinality({k \in 1..Len(ts) : HasData(ts[k])})
                         ELSE 1

\* C6: the table at position k, if it survives the clean-up, is written to
\* the sheet Table_k; a dropped table writes no sheet and still uses up k;
\* the sheet names of one file are pairwise distinct.
C6_SheetsTableUnderscoreK == SheetsNumberedByPosition("Table_")

\* C6 (amended): the same with the sheet named "Table k", a space between
\* the word and the number.
C6_SheetsTableSpaceK == SheetsNumberedByPosition("Table ")

\* C6 witness: the first table was dropped and the second one was written,
\* under the number 2.
C6_Witness ==
    /\ Stored
    /\ Succeeded
    /\ cur.returned = <<T_blank, T_data>>
    /\ SheetNames(OpenWorkbook(Bytes)) = {"Table 2"}

\* C7: the clean-up of a table with a non-empty cell leaves no fully-empty
\* row or column, keeps exactly the rows and the columns that had a non-empty
\* cell, in their original order; a table with no non-empty cell comes out
\* empty and no sheet is written for it.
C7_CleanupKeepsNonEmpty ==
    pc = "cleaned" =>
        LET R == {r \in 1..Len(df_in.data) :
                    \E c \in 1..Len(df_in.columns) : df_in.data[r][c] # NaN}
            C == {c \in 1..Len(df_in.columns) :
                    \E r \in 1..Len(df_in.data) : df_in.data[r][c] # NaN}
        IN  IF HasData(df_in)
            THEN /\ sheet_written
                 /\ Len(df_out.data) = Cardinality(R)
                 /\ Len(df_out.columns) = Cardinality(C)
                 /\ df_out.index = [m \in 1..Cardinality(R) |-> df_in.index[Nth(R, m)]]
                 /\ df_out.columns = [n \in 1..Cardinality(C) |-> df_in.columns[Nth(C, n)]]
                 /\ \A m \in 1..Cardinality(R) :
                      df_out.data[m] =
                        [n \in 1..Cardinality(C) |-> df_in.data[Nth(R, m)][Nth(C, n)]]
                 /\ \A m \in 1..Len(df_out.data) :
                      \E n \in 1..Len(df_out.columns) : df_out.data[m][n] # NaN
                 /\ \A n \in 1..Len(df_out.columns) :
                      \E m \in 1..Len(df_out.data) : df_out.data[m][n] # NaN
            ELSE empty(df_out) /\ ~sheet_written

\* C7 witness: a table whose middle row and middle column are empty was
\* cleaned to a 2 x 2 table.
C7_Witness ==
    /\ pc = "cleaned"
    /\ df_in.index = <<0, 1, 2>>
    /\ df_in.data = <<<<"x", NaN, NaN>>, <<NaN, NaN, NaN>>, <<NaN, NaN, "x">>>>
    /\ df_out.index = <<0, 2>>
    /\ df_out.columns = <<"c1", "c3">>

\* C8: the derived name is the input name with only its extension replaced
\* by .xlsx, whatever the case of the extension and however often .pdf
\* occurs in the name.
C8_StemThenXlsx ==
    pc = "named" =>
        name_out = SubSeq(name_in, 1, Len(name_in) - Len(PdfExt)) \o XlsxExt

\* C9: when the extractor returns no table, the output has exactly one sheet,
\* that sheet holds the message "No tables found in PDF.", and the outcome is
\* not the Error workbook.
C9_PlaceholderSheet ==
    (Stored /\ cur.read /\ cur.returned = <<>>) =>
        LET wb == OpenWorkbook(Bytes)
        IN  /\ ~cur.raised
            /\ Len(Bytes) = 1
            /\ Len(wb) = 1
            /\ wb[1].name # "Error"
            /\ wb[1].rows = <<<<"No tables found in PDF.">>>>

\* C9 witness: a file for which the extractor returned an empty list has
\* been converted and stored.
C9_Witness ==
    /\ Stored
    /\ cur.read
    /\ cur.returned = <<>>
    /\ cur.placeholder
    /\ SheetNames(OpenWorkbook(Bytes)) = {"Table 1"}

\* C10: for a batch of exactly one file the download is that file's bytes
\* under its derived name, never an archive.
C10_SingleFileDirect ==
    (pc = "done" /\ Len(uploaded_files) = 1) =>
        /\ download.kind = "xlsx"
        /\ download.file_name = excel_filename(uploaded_files[1])
        /\ download.data = log[1].data

\* C10 witness: a batch of one file whose conversion failed has been offered
\* for download.
C10_Witness ==
    /\ pc = "done"
    /\ Len(uploaded_files) = 1
    /\ log[1].outcome = "error"
    /\ download.kind = "xlsx"

====
